---- MODULE Spec2Model ----
(***************************************************************************)
(* Browser-side dashboard client of the Windows Artifacts Parser: the      *)
(* Artifacts page script and the Correlations page script                  *)
(* (web/correlation.js).  One browsing context holds one of the two pages; *)
(* the variable page says which script runs in it.                         *)
(***************************************************************************)
EXTENDS Integers, Sequences, FiniteSets, TLC

VARIABLES
    page,       \* which document the script runs in: "artifacts" or "correlations"
    now,        \* wall-clock time, in seconds since DOMContentLoaded
    table,      \* rows of the table body (artifactsTableBody / correlationsTableBody)
    reqs,       \* in-flight invocations of fetchArtifacts / fetchCorrelations
    nextReq,    \* id of the next invocation (ids follow issue order)
    nRefresh,   \* refresh() calls after the one issued on load
    banner,     \* statusSection: content, display, pending auto-hide timers
    cmds,       \* in-flight handlers of clear dataset / parse folder / parse ShellBags
    nClear,     \* clicks on clearDbBtn so far
    nClicks,    \* clicks on the parse and CSV buttons so far
    modal,      \* pdfReportModal.style.display
    form,       \* field values of pdfReportForm
    subs,       \* in-flight submit handlers of pdfReportForm
    nSubmit,    \* submissions so far
    urlLog,     \* object-URL operations, in execution order
    alertMsg,   \* text of the last alert() dialog (Correlations page)
    download,   \* a.download of the anchor clicked last
    attr,       \* the data-theme attribute of document.body
    stored,     \* localStorage item 'theme'
    toggle,     \* themeToggle.checked
    initPc,     \* position of the DOMContentLoaded handler
    nReload,    \* reloads of the page so far
    hist        \* observation record of the run (never read by the handlers)

tableVars == <<table, reqs, nextReq, nRefresh>>
cmdVars == <<cmds, nClear, nClicks>>
exportVars == <<modal, form, subs, nSubmit, urlLog, alertMsg, download>>
themeVars == <<attr, stored, toggle>>
loadVars == <<initPc, nReload>>

vars == <<page, now, table, reqs, nextReq, nRefresh, banner, cmds, nClear, nClicks,
          modal, form, subs, nSubmit, urlLog, alertMsg, download,
          attr, stored, toggle, initPc, nReload, hist>>

----------------------------------------------------------------------------
(* Bounds of the model *)

MaxRecs == 2        \* longest record collection a response carries
MaxCommands == 1    \* refresh and clear-dataset commands after the initial fetch
MaxClicks == 2      \* clicks on the parse and CSV buttons
MaxSubmit == 2      \* submissions of the export form
MaxTime == 6        \* the clock stops advancing here
MaxReloads == 1     \* reloads of the page

(* setTimeout delay of showStatus, 5000 ms, in seconds *)
HideDelay == 5

Pages == {"artifacts", "correlations"}

----------------------------------------------------------------------------
(* JSON values as the scripts see them *)

JNum(n) == [t |-> "num", n |-> n]
JStr(s) == [t |-> "str", s |-> s]
JNull == [t |-> "null"]
Undefined == [t |-> "undefined"]

(* JavaScript ToBoolean, as used by `value || ''` *)
Truthy(v) ==
    CASE v.t = "num" -> v.n # 0
      [] v.t = "str" -> v.s # ""
      [] OTHER -> FALSE

(* JavaScript ToString, as applied by the textContent setter *)
ToStr(v) ==
    CASE v.t = "num" -> ToString(v.n)
      [] v.t = "str" -> v.s
      [] v.t = "null" -> ""
      [] OTHER -> ""

(* property read record.f: undefined when the record has no such key *)
Get(rec, f) == IF f \in DOMAIN rec THEN rec[f] ELSE Undefined

(* the column order of each table *)
Fields(p) ==
    IF p = "artifacts"
    THEN <<"id", "artifact_type", "name", "path", "timestamp", "last_access",
           "extra", "details">>
    ELSE <<"timestamp", "artifact_type", "detail", "anomaly">>

(* Records the backend may return.  The first has every field; the second *)
(* has absent fields, a null, an empty string and a numeric zero.         *)
SampleRecords(p) ==
    IF p = "artifacts"
    THEN { [id |-> JNum(1), artifact_type |-> JStr("prefetch"), name |-> JStr("CMD.EXE"),
            path |-> JStr("C:\\Windows"), timestamp |-> JStr("2024-01-01"),
            last_access |-> JStr("2024-01-02"), extra |-> JStr("run=3"),
            details |-> JStr("ok")],
           [id |-> JNum(0), artifact_type |-> JStr("lnk"), path |-> JNull,
            extra |-> JStr("")] }
    ELSE { [timestamp |-> JStr("2024-01-01"), artifact_type |-> JStr("prefetch"),
            detail |-> JStr("CMD.EXE"), anomaly |-> JStr("none")],
           [timestamp |-> JNull, detail |-> JStr(""), anomaly |-> JNum(0)] }

(* Elements of a returned array: records, or null (not a record) *)
Items(p) == SampleRecords(p) \cup {JNull}

SeqsUpTo(S, n) == UNION { [1..k -> S] : k \in 0..n }

(* Bodies response.json() can resolve to: arrays, and the non-array JSON   *)
(* values null, {} and {"length": 0}.                                      *)
JArr(items) == [t |-> "arr", items |-> items]
JObj == [t |-> "obj"]
JObjLen0 == [t |-> "objlen0"]
Bodies(p) == { JArr(s) : s \in SeqsUpTo(Items(p), MaxRecs) } \cup {JNull, JObj, JObjLen0}

IsRecordList(b) == b.t = "arr" /\ \A i \in 1..Len(b.items) : b.items[i] # JNull

----------------------------------------------------------------------------
(* Table rows *)

DataRow(cells) == [kind |-> "data", cells |-> cells]
MsgRow(span, text) == [kind |-> "msg", colspan |-> span, text |-> text]

NoDataRowCopied(p) == MsgRow(4, "No correlations found.")

(* the placeholder row of an empty collection *)
NoDataRow(p) ==
    IF p = "artifacts" THEN MsgRow(8, "No artifacts found.")
    ELSE MsgRow(4, "No correlations found.")

ErrorRow == MsgRow(4, "Error fetching correlations.")

(* row.insertCell().textContent = record.f || '' *)
Cell(rec, f) == LET v == Get(rec, f) IN IF Truthy(v) THEN ToStr(v) ELSE ""

(* the row one forEach iteration builds for a record *)
RowOf(p, rec) == DataRow([i \in 1..Len(Fields(p)) |-> Cell(rec, Fields(p)[i])])

(* forEach over the array: a null element throws on its first property     *)
(* read, after insertRow() has already appended an empty row.  Returns the *)
(* rows built and whether the loop threw.                                  *)
RECURSIVE ForEachRows(_, _, _)
ForEachRows(p, items, acc) ==
    IF items = <<>> THEN [rows |-> acc, threw |-> FALSE]
    ELSE IF Head(items) = JNull
         THEN [rows |-> Append(acc, DataRow(<<>>)), threw |-> TRUE]
         ELSE ForEachRows(p, Tail(items), Append(acc, RowOf(p, Head(items))))

(* The try-block of fetchArtifacts / fetchCorrelations once the body is   *)
(* parsed: innerHTML = '' clears the rows tbl, then the body is rendered.  *)
(* Returns the resulting rows and whether the block threw.                *)
RenderBody(p, body, tbl) ==
    LET cleared == SubSeq(tbl, 1, 0) IN
    CASE body.t = "null" -> [rows |-> cleared, threw |-> TRUE]       \* null.length
      [] body.t = "objlen0" -> [rows |-> <<NoDataRow(p)>>, threw |-> FALSE]
      [] body.t = "obj" -> [rows |-> cleared, threw |-> TRUE]        \* no forEach
      [] OTHER ->
            IF Len(body.items) = 0
            THEN [rows |-> <<NoDataRow(p)>>, threw |-> FALSE]
            ELSE ForEachRows(p, body.items, cleared)

----------------------------------------------------------------------------
(* StatusBanner *)

ShowStatusNoTimer(b, message, type, t) ==
    [html |-> [type |-> type, message |-> message],
     display |-> "block",
     timers |-> b.timers]

ShowStatusCancelling(b, message, type, t) ==
    [html |-> [type |-> type, message |-> message],
     display |-> "block",
     timers |-> <<t + HideDelay>>]

(* showStatus(message, type) called at time t: replaces the content, shows *)
(* the section and schedules one more auto-hide; nothing is cancelled.     *)
ShowStatus(b, message, type, t) ==
    [html |-> [type |-> type, message |-> message],
     display |-> "block",
     timers |-> Append(b.timers, t + HideDelay)]

NoHtml == [type |-> "", message |-> ""]
NoBody == [t |-> "none"]

(* observation of a showStatus call at time t *)
(* the first two calls of the run are kept, later ones only counted up to 3 *)
Shown(h, message, type, t) ==
    [h EXCEPT !.firstTwo = IF Len(@) < 2
                           THEN Append(@, [at |-> t, type |-> type, message |-> message])
                           ELSE @,
              !.nShows = IF @ < 3 THEN @ + 1 ELSE @]

Visible == banner.display = "block"

(* the DOMContentLoaded handler has run: the listeners are registered *)
Ready == initPc = "done"


NoBefore == [modal |-> "", form |-> [title |-> ""], reopened |-> FALSE]

(* observation: the step is e; what a settling handler read and found is   *)
(* kept for the step of the settlement only                                *)
Ev(h, e) ==
    [h EXCEPT !.ev = e, !.reply = NoBody, !.input = "", !.endBody = [title |-> ""],
              !.before = NoBefore]

----------------------------------------------------------------------------
(* DataTableController: fetchArtifacts / fetchCorrelations *)

(* the synchronous start of the async function: the request is issued *)
Invoke(rs, id, src) == rs \cup {[id |-> id, pc |-> "fetch", src |-> src]}

Invoked(h, rs) == [h EXCEPT !.overlap = (rs # {}), !.latestShown = FALSE]

CatchTableKeeping(p, tbl) == IF p = "artifacts" THEN tbl ELSE Append(tbl, ErrorRow)

(* the catch block: the Artifacts page reports through showStatus and      *)
(* leaves the table as the try-block left it; the Correlations page        *)
(* replaces the table body by one error row.                               *)
CatchTable(p, tbl) == IF p = "artifacts" THEN tbl ELSE <<ErrorRow>>

CatchBanner(p, b, t) ==
    IF p = "artifacts" THEN ShowStatus(b, "Error fetching artifacts.", "error", t) ELSE b

CatchShown(p, h, t) ==
    IF p = "artifacts" THEN Shown(h, "Error fetching artifacts.", "error", t) ELSE h

(* observation: the step that ends invocation r, what it did, and whether  *)
(* the table now shows the rows rendered from the response of the          *)
(* invocation issued last                                                  *)
Ended(h, r, e, rows) ==
    [Ev(h, e) EXCEPT
              !.anyFail = @ \/ e # "fetchOk",
              !.hadRows = table # <<>>,
              !.latestShown = IF r.id = nextReq - 1 /\ e = "fetchOk" THEN TRUE
                              ELSE @ /\ rows = table]

(* refreshBtn click (Artifacts page); a further call of the page's         *)
(* refresh function (Correlations page)                                    *)
Refresh ==
    /\ Ready
    /\ nRefresh + nClear < MaxCommands
    /\ nRefresh' = nRefresh + 1
    /\ reqs' = Invoke(reqs, nextReq, "button")
    /\ nextReq' = nextReq + 1
    /\ hist' = Ev(Invoked(hist, reqs), "refresh")
    /\ UNCHANGED <<page, themeVars, loadVars, now, table, banner, cmdVars, exportVars>>

(* the catch block runs for invocation r, the try-block having left tbl *)
Caught(r, tbl) ==
    /\ reqs' = reqs \ {r}
    /\ table' = CatchTable(page, tbl)
    /\ banner' = CatchBanner(page, banner, now)
    /\ hist' = Ended(CatchShown(page, hist, now), r, "fetchCaught", CatchTable(page, tbl))

(* await fetch(...) settles: a response, or a rejection (network error) *)
FetchSettles(r, outcome) ==
    /\ Ready
    /\ r \in reqs /\ r.pc = "fetch"
    /\ IF outcome = "response"
       THEN /\ reqs' = (reqs \ {r}) \cup {[r EXCEPT !.pc = "json"]}
            /\ hist' = Ev(hist, "response")
            /\ UNCHANGED <<table, banner>>
       ELSE Caught(r, table)
    /\ UNCHANGED <<page, themeVars, loadVars, now, nextReq, nRefresh, cmdVars, exportVars>>

(* await response.json() rejects: the body is not JSON *)
JsonRejects(r) ==
    /\ Ready
    /\ r \in reqs /\ r.pc = "json"
    /\ Caught(r, table)
    /\ UNCHANGED <<page, themeVars, loadVars, now, nextReq, nRefresh, cmdVars, exportVars>>

(* await response.json() resolves to body: the table body is cleared and   *)
(* rendered; a throw on the way runs the catch block                       *)
JsonResolves(r, body) ==
    /\ Ready
    /\ r \in reqs /\ r.pc = "json"
    /\ LET out == RenderBody(page, body, table) IN
       IF out.threw
       THEN Caught(r, out.rows)
       ELSE /\ reqs' = reqs \ {r}
            /\ table' = out.rows
            /\ banner' = banner
            /\ hist' = IF IsRecordList(body)
                       THEN [Ended(hist, r, "fetchOk", out.rows) EXCEPT !.lastOk = body]
                       ELSE Ended(hist, r, "fetchUncaught", out.rows)
    /\ UNCHANGED <<page, themeVars, loadVars, now, nextReq, nRefresh, cmdVars, exportVars>>

----------------------------------------------------------------------------
(* ActionDispatcher: clear dataset, parse folder, parse ShellBags, CSV     *)

(* a value inside a template literal: `${v}` *)
TemplateStr(v) ==
    CASE v.t = "num" -> ToString(v.n)
      [] v.t = "str" -> v.s
      [] v.t = "null" -> "null"
      [] OTHER -> "undefined"

(* Bodies response.json() of a command can resolve to: {status, message}   *)
(* with status 'success', another status, a status in another case, a body *)
(* with neither key, and null.                                             *)
Replies ==
    { [status |-> JStr("success"), message |-> JStr("Done.")],
      [status |-> JStr("error"), message |-> JStr("No such folder.")],
      [status |-> JStr("Success"), message |-> JStr("Done.")],
      [error |-> JStr("Internal Server Error")],
      JNull }

StatusBranchLoose(data) ==
    IF Truthy(Get(data, "status")) /\ Get(data, "status") # JStr("error")
    THEN [path |-> "success", type |-> "info", text |-> TemplateStr(Get(data, "message"))]
    ELSE [path |-> "failure", type |-> "error",
          text |-> "Error: " \o TemplateStr(Get(data, "message"))]

(* if (data.status === 'success') { showStatus(data.message); }            *)
(* else { showStatus(`Error: ${data.message}`, 'error'); }                 *)
(* for a body other than null: the path taken and the showStatus arguments *)
StatusBranch(data) ==
    IF Get(data, "status") = JStr("success")
    THEN [path |-> "success", type |-> "info", text |-> TemplateStr(Get(data, "message"))]
    ELSE [path |-> "failure", type |-> "error",
          text |-> "Error: " \o TemplateStr(Get(data, "message"))]

StartedText(kind) ==
    CASE kind = "clear" -> "Clearing database..."
      [] kind = "folder" -> "Parsing folder started..."
      [] OTHER -> "Parsing ShellBags started..."

CaughtText(kind) ==
    CASE kind = "clear" -> "Error clearing database: "
      [] kind = "folder" -> "Error parsing folder: "
      [] OTHER -> "Error parsing ShellBags: "

(* the JSON body of a command's POST: parse folder sends the path *)
NoPost == [folder_path |-> ""]
PostBody(kind, path) == IF kind = "folder" THEN [folder_path |-> path] ELSE NoPost

(* the handler shows `Started', issues its POST and awaits the response *)
Start(kind, id, path) ==
    /\ banner' = ShowStatus(banner, StartedText(kind), "info", now)
    /\ cmds' = cmds \cup {[id |-> id, kind |-> kind, pc |-> "fetch",
                           body |-> PostBody(kind, path)]}

ClearClickUnguarded(ans) ==
    /\ page = "artifacts"
    /\ nRefresh + nClear < MaxCommands
    /\ nClear' = nClear + 1
    /\ Start("clear", nClear + 1, "")
    /\ hist' = Ev(Shown(hist, StartedText("clear"), "info", now),
                IF ans THEN "clearConfirmed" ELSE "clearDeclined")
    /\ UNCHANGED <<page, themeVars, loadVars, now, tableVars, nClicks, exportVars>>

(* clearDbBtn click: confirm() answers ans; only on yes does the handler go on *)
ClearClick(ans) ==
    /\ Ready
    /\ page = "artifacts"
    /\ nRefresh + nClear < MaxCommands
    /\ nClear' = nClear + 1
    /\ IF ans
       THEN /\ Start("clear", nClear + 1, "")
            /\ hist' = Ev(Shown(hist, StartedText("clear"), "info", now), "clearConfirmed")
       ELSE /\ hist' = Ev(hist, "clearDeclined")
            /\ UNCHANGED <<banner, cmds>>
    /\ UNCHANGED <<page, themeVars, loadVars, now, tableVars, nClicks, exportVars>>

(* observation: the value read from folderPathInput *)
Typed(h, path) == [h EXCEPT !.input = path]

(* parseFolderBtn click with folderPathInput.value = path *)
ParseFolderClick(path) ==
    /\ Ready
    /\ page = "artifacts"
    /\ nClicks < MaxClicks
    /\ nClicks' = nClicks + 1
    /\ IF path = ""
       THEN /\ banner' = ShowStatus(banner, "Please enter a folder path.", "error", now)
            /\ hist' = Ev(Shown(hist, "Please enter a folder path.", "error", now),
                          "parseNoPath")
            /\ cmds' = cmds
       ELSE /\ Start("folder", MaxCommands + nClicks + 1, path)
            /\ hist' = Typed(Ev(Shown(hist, StartedText("folder"), "info", now),
                                "parseStarted"), path)
    /\ UNCHANGED <<page, themeVars, loadVars, now, tableVars, nClear, exportVars>>

(* parseShellbagsBtn click *)
ParseShellbagsClick ==
    /\ Ready
    /\ page = "artifacts"
    /\ nClicks < MaxClicks
    /\ nClicks' = nClicks + 1
    /\ Start("shellbags", MaxCommands + nClicks + 1, "")
    /\ hist' = Ev(Shown(hist, StartedText("shellbags"), "info", now), "parseStarted")
    /\ UNCHANGED <<page, themeVars, loadVars, now, tableVars, nClear, exportVars>>

(* exportCsvBtn click: two status messages around the navigation *)
ExportCsvClick ==
    /\ Ready
    /\ page = "artifacts"
    /\ nClicks < MaxClicks
    /\ nClicks' = nClicks + 1
    /\ banner' = ShowStatus(ShowStatus(banner, "Generating CSV report...", "info", now),
                            "CSV report initiated. Check your downloads.", "info", now)
    /\ hist' = Ev(Shown(Shown(hist, "Generating CSV report...", "info", now),
                         "CSV report initiated. Check your downloads.", "info", now), "csv")
    /\ UNCHANGED <<page, themeVars, loadVars, now, tableVars, cmds, nClear, exportVars>>

(* an error branch or the catch block of a command handler *)
CmdError(c, message) ==
    /\ cmds' = cmds \ {c}
    /\ banner' = ShowStatus(banner, message, "error", now)
    /\ hist' = Ev(Shown(hist, message, "error", now),
                  IF c.kind = "clear" THEN "clearFail" ELSE "parseFail")
    /\ UNCHANGED <<page, themeVars, loadVars, now, tableVars, nClear, nClicks, exportVars>>

(* await fetch(...) of a command settles *)
CmdFetchSettles(c, outcome) ==
    /\ Ready
    /\ c \in cmds /\ c.pc = "fetch"
    /\ IF outcome = "response"
       THEN /\ cmds' = (cmds \ {c}) \cup {[c EXCEPT !.pc = "json"]}
            /\ hist' = Ev(hist, "response")
            /\ UNCHANGED <<page, themeVars, loadVars, now, tableVars, banner, nClear, nClicks, exportVars>>
       ELSE CmdError(c, CaughtText(c.kind))

(* await response.json() of a command rejects *)
CmdJsonRejects(c) ==
    /\ Ready
    /\ c \in cmds /\ c.pc = "json"
    /\ CmdError(c, CaughtText(c.kind))

(* observation: the body the handler read *)
Replied(h, reply) == [h EXCEPT !.reply = reply]

RefreshesAfterAny(kind) == TRUE

(* the success branch of clear dataset alone calls fetchArtifacts() *)
RefreshesAfter(kind) == kind = "clear"

(* await response.json() resolves to reply: reading null.status throws     *)
(* into the catch block; otherwise the handler branches on the status.     *)
(* After a successful clear the handler calls fetchArtifacts().            *)
CmdJsonResolves(c, reply) ==
    /\ Ready
    /\ c \in cmds /\ c.pc = "json"
    /\ IF reply = JNull
       THEN CmdError(c, CaughtText(c.kind))
       ELSE LET br == StatusBranch(reply) IN
            /\ cmds' = cmds \ {c}
            /\ banner' = ShowStatus(banner, br.text, br.type, now)
            /\ IF br.path = "success" /\ RefreshesAfter(c.kind)
               THEN /\ reqs' = Invoke(reqs, nextReq, "clear")
                    /\ nextReq' = nextReq + 1
                    /\ hist' = Replied(Ev(Invoked(Shown(hist, br.text, br.type, now), reqs),
                                          "clearOk"), reply)
               ELSE /\ hist' = Replied(Ev(Shown(hist, br.text, br.type, now),
                                          CASE br.path = "success" -> "parseOk"
                                            [] c.kind = "clear" -> "clearFail"
                                            [] OTHER -> "parseFail"), reply)
                    /\ UNCHANGED <<reqs, nextReq>>
            /\ UNCHANGED <<page, themeVars, loadVars, now, table, nRefresh, nClear, nClicks, exportVars>>

----------------------------------------------------------------------------
(* Content-Disposition and the download filename.  Header values and file  *)
(* names are sequences of one-character strings.                           *)

(* response.headers.get('Content-Disposition'): null when the header is absent *)
NoHeader == [present |-> FALSE, chars |-> <<>>]
Header(chars) == [present |-> TRUE, chars |-> chars]

Attachment == <<"a", "t", "t", "a", "c", "h", "m", "e", "n", "t">>
FilenameWord == <<"f", "i", "l", "e", "n", "a", "m", "e">>
Quotes == {"'", "\""}

(* the word w stands in s at (1-based) position i *)
HasAt(s, i, w) == i + Len(w) - 1 <= Len(s) /\ SubSeq(s, i, i + Len(w) - 1) = w

(* String.prototype.indexOf: zero-based index of the first occurrence, or -1 *)
IndexOf(s, w) ==
    LET hits == {i \in 1..Len(s) : HasAt(s, i, w)} IN
    IF hits = {} THEN -1 ELSE (CHOOSE i \in hits : \A j \in hits : i <= j) - 1

(* a greedy negated class [^...]* starting at i: the position after the run *)
RunEnd(s, i, stop) ==
    LET ends == {j \in i..Len(s) : s[j] \in stop} IN
    IF ends = {} THEN Len(s) + 1 ELSE CHOOSE j \in ends : \A k \in ends : j <= k

\* the regex prefix  filename[^;=\n]*=  matched at position i: the position
\* after the equals sign, or 0 when it does not match there
AfterEquals(s, i) ==
    IF ~HasAt(s, i, FilenameWord) THEN 0
    ELSE LET q == RunEnd(s, i + Len(FilenameWord), {";", "=", "\n"}) IN
         IF q <= Len(s) /\ s[q] = "=" THEN q + 1 ELSE 0

\* the capture group at position g, first alternative: a quoted run up to the
\* first repetition of the opening quote on the same line, quotes included;
\* second alternative: everything up to the next semicolon or line break
Group1(s, g) ==
    LET closing == IF g <= Len(s) /\ s[g] \in Quotes
                   THEN {k \in (g + 1)..Len(s) :
                            s[k] = s[g] /\ \A j \in (g + 1)..(k - 1) : s[j] # "\n"}
                   ELSE {}
    IN IF closing # {}
       THEN SubSeq(s, g, CHOOSE k \in closing : \A j \in closing : k <= j)
       ELSE SubSeq(s, g, RunEnd(s, g, {";", "\n"}) - 1)

(* filenameRegex.exec(disposition): the leftmost match, or null *)
FilenameRegexExec(s) ==
    LET starts == {i \in 1..Len(s) : AfterEquals(s, i) # 0} IN
    IF starts = {} THEN [matched |-> FALSE, g1 |-> <<>>]
    ELSE LET i == CHOOSE i \in starts : \A j \in starts : i <= j
         IN [matched |-> TRUE, g1 |-> Group1(s, AfterEquals(s, i))]

\* matches[1].replace(..., ''): every single and double quote is removed
StripQuotes(m) == SelectSeq(m, LAMBDA c : c \notin Quotes)

DefaultFilename(p) ==
    IF p = "artifacts"
    THEN <<"a", "r", "t", "i", "f", "a", "c", "t", "s", "_", "r", "e", "p", "o", "r", "t",
           ".", "p", "d", "f">>
    ELSE <<"c", "o", "r", "r", "e", "l", "a", "t", "i", "o", "n", "_", "r", "e", "p", "o",
           "r", "t", ".", "p", "d", "f">>

(* the value given to a.download *)
Filename(p, disposition) ==
    IF disposition.present /\ disposition.chars # <<>>
       /\ IndexOf(disposition.chars, Attachment) # -1
    THEN LET matches == FilenameRegexExec(disposition.chars) IN
         IF matches.matched /\ matches.g1 # <<>>
         THEN StripQuotes(matches.g1)
         ELSE DefaultFilename(p)
    ELSE DefaultFilename(p)

AttachmentSp == Attachment \o <<";", " ">>
CustomPdf == <<"c", "u", "s", "t", "o", "m", ".", "p", "d", "f">>
APdf == <<"a", ".", "p", "d", "f">>

(* Content-Disposition values the backend or a proxy may send *)
Dispositions ==
    { NoHeader,
      Header(<<>>),
      Header(Attachment),
      Header(AttachmentSp \o FilenameWord \o <<"=", "\"">> \o CustomPdf \o <<"\"">>),
      Header(AttachmentSp \o FilenameWord \o <<"=">> \o CustomPdf),
      Header(AttachmentSp \o FilenameWord \o <<"=", "'">> \o APdf \o <<"'", ";", " ", "x", "=", "1">>),
      Header(AttachmentSp \o FilenameWord \o <<"=">> \o APdf \o <<";", " ", "x", "=", "1">>),
      Header(AttachmentSp \o FilenameWord \o <<"=">>),
      Header(AttachmentSp \o FilenameWord \o <<"=", "\"", "\"">>),
      Header(AttachmentSp \o FilenameWord \o <<";", " ", "x", "=">> \o APdf),
      Header(AttachmentSp \o FilenameWord \o <<"=", "\"", "a", ";", "b", "\"">>),
      Header(AttachmentSp \o FilenameWord \o <<"=", "\"">> \o APdf),
      Header(AttachmentSp \o FilenameWord \o <<"*", "=", "U", "'", "'">> \o APdf),
      Header(<<"i", "n", "l", "i", "n", "e", ";", " ">> \o FilenameWord \o <<"=", "\"">>
             \o CustomPdf \o <<"\"">>),
      Header(FilenameWord \o <<"=">> \o APdf) }

----------------------------------------------------------------------------
(* ReportExportModal *)

EmptyForm == [title |-> ""]
FormValues == {[title |-> v] : v \in {"", "case 1", "case 2"}}

(* exportPdfBtn / exportCorrelationPdfBtn click *)
OpenModal ==
    /\ Ready
    /\ modal # "block"
    /\ modal' = "block"
    /\ hist' = [Ev(hist, "open") EXCEPT !.reopened = @ \/ subs # {}]
    /\ UNCHANGED <<page, themeVars, loadVars, now, tableVars, banner, cmdVars, form, subs, nSubmit, urlLog,
                   alertMsg, download>>

DismissModalStayingOpen ==
    /\ Ready
    /\ modal = "block"
    /\ modal' = "block"
    /\ hist' = Ev(hist, "dismiss")
    /\ UNCHANGED <<page, themeVars, loadVars, now, tableVars, banner, cmdVars, form, subs,
                   nSubmit, urlLog, alertMsg, download>>

(* closeModalBtn click, or a click whose target is the modal backdrop *)
DismissModal ==
    /\ Ready
    /\ modal = "block"
    /\ modal' = "none"
    /\ hist' = Ev(hist, "dismiss")
    /\ UNCHANGED <<page, themeVars, loadVars, now, tableVars, banner, cmdVars, form, subs, nSubmit, urlLog,
                   alertMsg, download>>

(* the user edits the form shown in the modal *)
EditForm(v) ==
    /\ Ready
    /\ modal = "block"
    /\ form # v
    /\ form' = v
    /\ hist' = Ev(hist, "edit")
    /\ UNCHANGED <<page, themeVars, loadVars, now, tableVars, banner, cmdVars, modal, subs, nSubmit, urlLog,
                   alertMsg, download>>

(* the first message of a handler: showStatus on the Artifacts page, a     *)
(* blocking alert() on the Correlations page                               *)
Notify(message, type) ==
    IF page = "artifacts"
    THEN /\ banner' = ShowStatus(banner, message, type, now)
         /\ alertMsg' = alertMsg
    ELSE /\ alertMsg' = message
         /\ banner' = banner

Notified(h, message, type) == IF page = "artifacts" THEN Shown(h, message, type, now) ELSE h

SubmitText ==
    IF page = "artifacts" THEN "Generating PDF report..."
    ELSE "Generating Correlation PDF report..."

(* observation: the handler of submission s ends on path e *)
ExportEnded(h, s, e) ==
    [h EXCEPT !.ev = e, !.reply = NoBody, !.endBody = s.body,
              !.before = [modal |-> modal, form |-> form, reopened |-> h.reopened],
              !.reopened = FALSE]

SubmitDroppingSecond ==
    /\ Ready
    /\ modal = "block"
    /\ nSubmit < MaxSubmit
    /\ nSubmit' = nSubmit + 1
    /\ Notify(SubmitText, "info")
    /\ subs' = IF subs = {} THEN {[id |-> nSubmit + 1, pc |-> "fetch", body |-> form]}
               ELSE subs
    /\ hist' = Ev(Notified(hist, SubmitText, "info"), "submit")
    /\ UNCHANGED <<page, themeVars, loadVars, now, tableVars, cmdVars, modal, form, urlLog,
                   download>>

(* pdfReportForm submit: the field values are snapshotted and posted *)
Submit ==
    /\ Ready
    /\ modal = "block"
    /\ nSubmit < MaxSubmit
    /\ nSubmit' = nSubmit + 1
    /\ Notify(SubmitText, "info")
    /\ subs' = subs \cup {[id |-> nSubmit + 1, pc |-> "fetch", body |-> form]}
    /\ hist' = Ev(Notified(hist, SubmitText, "info"), "submit")
    /\ UNCHANGED <<page, themeVars, loadVars, now, tableVars, cmdVars, modal, form, urlLog, download>>

ExportFinallyOnSuccess(path, m, f) ==
    IF path = "exportOk" THEN [modal |-> "none", form |-> EmptyForm]
    ELSE [modal |-> m, form |-> f]

(* the finally block, reached on path `path' with the modal and form as    *)
(* they then are: the modal is hidden and the form reset                   *)
ExportFinally(path, m, f) == [modal |-> "none", form |-> EmptyForm]

DownloadStepsLeaking(u) == <<[op |-> "create", url |-> u], [op |-> "click", url |-> u]>>

(* createObjectURL(blob); a.href = url; ...; a.click(); revokeObjectURL(url) *)
DownloadSteps(u) ==
    <<[op |-> "create", url |-> u], [op |-> "click", url |-> u],
      [op |-> "revoke", url |-> u]>>

(* the handler of submission s ends on path `path' *)
ExportEnds(s, path) ==
    /\ subs' = subs \ {s}
    /\ LET fin == ExportFinally(path, modal, form) IN
       /\ modal' = fin.modal
       /\ form' = fin.form
    /\ UNCHANGED <<page, themeVars, loadVars, now, tableVars, cmdVars, nSubmit>>

(* the catch block, then finally *)
ExportCaught(s, message) ==
    /\ Notify(message, "error")
    /\ hist' = ExportEnded(Notified(hist, message, "error"), s, "exportCaught")
    /\ UNCHANGED <<urlLog, download>>
    /\ ExportEnds(s, "exportCaught")

ExportCaughtText ==
    IF page = "artifacts" THEN "Error exporting PDF: " ELSE "Error exporting correlation PDF: "

(* await fetch(...) settles: response.ok, a response that is not ok, or a  *)
(* rejection                                                               *)
ExportFetchSettles(s, outcome) ==
    /\ Ready
    /\ s \in subs /\ s.pc = "fetch"
    /\ IF outcome = "neterr"
       THEN ExportCaught(s, ExportCaughtText)
       ELSE /\ subs' = (subs \ {s}) \cup
                       {[s EXCEPT !.pc = IF outcome = "ok" THEN "blob" ELSE "errjson"]}
            /\ hist' = Ev(hist, "response")
            /\ UNCHANGED <<page, themeVars, loadVars, now, tableVars, banner, cmdVars, modal, form, nSubmit,
                           urlLog, alertMsg, download>>

(* observation: the Content-Disposition value the handler read *)
Downloaded(h, disposition) == [h EXCEPT !.disp = disposition]

(* await response.blob() settles: the download is triggered under the name *)
(* taken from the response's Content-Disposition value, or the read of the *)
(* body fails                                                              *)
ExportBlobSettles(s, outcome, disposition) ==
    /\ Ready
    /\ s \in subs /\ s.pc = "blob"
    /\ IF outcome = "blob"
       THEN /\ urlLog' = urlLog \o DownloadSteps(s.id)
            /\ download' = Filename(page, disposition)
            /\ IF page = "artifacts"
               THEN /\ banner' = ShowStatus(banner,
                                     "PDF report initiated. Check your downloads.", "info", now)
                    /\ hist' = Downloaded(ExportEnded(
                                 Shown(hist, "PDF report initiated. Check your downloads.",
                                       "info", now), s, "exportOk"), disposition)
               ELSE /\ banner' = banner
                    /\ hist' = Downloaded(ExportEnded(hist, s, "exportOk"), disposition)
            /\ alertMsg' = alertMsg
            /\ ExportEnds(s, "exportOk")
       ELSE ExportCaught(s, ExportCaughtText)

(* await response.json() of a response that is not ok settles: an error    *)
(* body with a message, null (reading null.message throws), or a rejection *)
ExportErrorSettles(s, outcome) ==
    /\ Ready
    /\ s \in subs /\ s.pc = "errjson"
    /\ IF outcome = "message"
       THEN /\ Notify("Error generating PDF: errorData.message", "error")
            /\ hist' = ExportEnded(Notified(hist, "Error generating PDF: errorData.message",
                                             "error"), s, "exportErrBody")
            /\ UNCHANGED <<urlLog, download>>
            /\ ExportEnds(s, "exportErrBody")
       ELSE ExportCaught(s, ExportCaughtText)

----------------------------------------------------------------------------
(* ThemePreference *)

SetThemeAttributeOnly(theme) ==
    [attr |-> theme, stored |-> stored, toggle |-> (theme = JStr("dark"))]

(* setTheme(theme): the body attribute, the stored item and the toggle *)
SetTheme(theme) ==
    [attr |-> theme, stored |-> theme, toggle |-> (theme = JStr("dark"))]

(* observation: the argument of the setTheme call of step e *)
ThemeSet(h, e, theme) == [Ev(h, e) EXCEPT !.lastSet = theme]

(* the change event of themeToggle: the browser has flipped the checkbox, *)
(* the handler sets 'dark' when it is now checked and 'light' otherwise   *)
ToggleChange ==
    /\ Ready
    /\ LET theme == IF ~toggle THEN JStr("dark") ELSE JStr("light")
           set == SetTheme(theme)
       IN /\ attr' = set.attr
          /\ stored' = set.stored
          /\ toggle' = set.toggle
          /\ hist' = ThemeSet(hist, "toggle", theme)
    /\ UNCHANGED <<page, loadVars, now, tableVars, banner, cmdVars, exportVars>>

----------------------------------------------------------------------------
(* Time and the auto-hide timers *)

(* the setTimeout callback of showStatus *)
TimerFires ==
    /\ Ready
    /\ banner.timers # <<>>
    /\ Head(banner.timers) <= now
    /\ banner' = [banner EXCEPT !.display = "none", !.timers = Tail(@)]
    /\ hist' = Ev(hist, "timer")
    /\ UNCHANGED <<page, themeVars, loadVars, now, tableVars, cmdVars, exportVars>>

(* a second passes; a timer that is due fires first *)
Tick ==
    /\ Ready
    /\ now < MaxTime
    /\ IF banner.timers = <<>> THEN TRUE ELSE Head(banner.timers) > now
    /\ now' = now + 1
    /\ hist' = Ev(hist, "tick")
    /\ UNCHANGED <<page, themeVars, loadVars, tableVars, banner, cmdVars, exportVars>>

(* past MaxTime a second passes only while an auto-hide is pending and not *)
(* yet due                                                                 *)
TimerWait ==
    /\ Ready
    /\ now >= MaxTime
    /\ banner.timers # <<>>
    /\ banner.timers[1] > now
    /\ now' = now + 1
    /\ hist' = Ev(hist, "tick")
    /\ UNCHANGED <<page, themeVars, loadVars, tableVars, banner, cmdVars, exportVars>>

----------------------------------------------------------------------------
(* The page after its DOMContentLoaded handler has run: the initial fetch  *)
(* is in flight, the table body and the status section are empty, the      *)
(* modal is not displayed and the form holds its default values.           *)

InitHist ==
    [ev |-> "load", lastOk |-> NoBody, latestShown |-> FALSE, overlap |-> FALSE,
     anyFail |-> FALSE, hadRows |-> FALSE, endBody |-> EmptyForm,
     before |-> NoBefore,
     reopened |-> FALSE,
     firstTwo |-> <<>>, nShows |-> 0, disp |-> NoHeader, reply |-> NoBody,
     lastSet |-> JNull, input |-> ""]

Init ==
    /\ page \in Pages
    /\ now = 0
    /\ table = <<>>
    /\ reqs = {[id |-> 1, pc |-> "fetch", src |-> "load"]}
    /\ nextReq = 2
    /\ nRefresh = 0
    /\ banner = [html |-> NoHtml, display |-> "", timers |-> <<>>]
    /\ cmds = {}
    /\ nClear = 0
    /\ nClicks = 0
    /\ modal = ""
    /\ form = EmptyForm
    /\ subs = {}
    /\ nSubmit = 0
    /\ urlLog = <<>>
    /\ alertMsg = ""
    /\ download = <<>>
    /\ attr = JStr("light")
    /\ stored = JStr("light")
    /\ toggle = FALSE
    /\ initPc = "done"
    /\ nReload = 0
    /\ hist = [InitHist EXCEPT !.lastSet = JStr("light")]

(* What localStorage may hold under the key 'theme' when a page is opened: *)
(* nothing, a value this script wrote, or any other string.                *)
StoredContents ==
    {JNull, JStr("light"), JStr("dark"), JStr(""), JStr("blue"), JStr("Dark")}

NoBanner == [html |-> NoHtml, display |-> "", timers |-> <<>>]

(* The document when DOMContentLoaded fires: nothing has run yet.  The     *)
(* checkbox is in the state the browser gives it (default or restored).    *)
InitLoad ==
    /\ page \in Pages
    /\ now = 0
    /\ table = <<>>
    /\ reqs = {}
    /\ nextReq = 1
    /\ nRefresh = 0
    /\ banner = NoBanner
    /\ cmds = {}
    /\ nClear = 0
    /\ nClicks = 0
    /\ modal = ""
    /\ form = EmptyForm
    /\ subs = {}
    /\ nSubmit = 0
    /\ urlLog = <<>>
    /\ alertMsg = ""
    /\ download = <<>>
    /\ attr = JNull
    /\ stored \in StoredContents
    /\ toggle \in BOOLEAN
    /\ initPc = "start"
    /\ nReload = 0
    /\ hist = [InitHist EXCEPT !.ev = "open"]

(* first step of the DOMContentLoaded handler: fetchArtifacts() /          *)
(* fetchCorrelations() is called and issues its request                    *)
LoadFetch ==
    /\ initPc = "start"
    /\ initPc' = "fetched"
    /\ reqs' = Invoke(reqs, nextReq, "load")
    /\ nextReq' = nextReq + 1
    /\ hist' = Ev(hist, "loadFetch")
    /\ UNCHANGED <<page, themeVars, nReload, now, table, nRefresh, banner, cmdVars,
                   exportVars>>

(* second step: the modal, command and toggle listeners are registered *)
LoadWire ==
    /\ initPc = "fetched"
    /\ initPc' = "wired"
    /\ hist' = Ev(hist, "loadWire")
    /\ UNCHANGED <<page, themeVars, nReload, now, tableVars, banner, cmdVars, exportVars>>

(* last step: the saved theme, or 'light' when getItem gives a falsy value, *)
(* is applied                                                               *)
LoadTheme ==
    /\ initPc = "wired"
    /\ initPc' = "done"
    /\ LET savedTheme == stored
           theme == IF Truthy(savedTheme) THEN savedTheme ELSE JStr("light")
           set == SetTheme(theme)
       IN /\ attr' = set.attr
          /\ stored' = set.stored
          /\ toggle' = set.toggle
          /\ hist' = ThemeSet(hist, "loadTheme", theme)
    /\ UNCHANGED <<page, nReload, now, tableVars, banner, cmdVars, exportVars>>

(* the page is reloaded: the document starts afresh, localStorage stays *)
Reload ==
    /\ Ready
    /\ nReload < MaxReloads
    /\ nReload' = nReload + 1
    /\ initPc' = "start"
    /\ attr' = JNull
    /\ toggle' \in BOOLEAN
    /\ now' = 0
    /\ table' = <<>>
    /\ reqs' = {}
    /\ nextReq' = 1
    /\ banner' = NoBanner
    /\ cmds' = {}
    /\ modal' = ""
    /\ form' = EmptyForm
    /\ subs' = {}
    /\ urlLog' = <<>>
    /\ alertMsg' = ""
    /\ download' = <<>>
    /\ hist' = [InitHist EXCEPT !.ev = "reload"]
    /\ UNCHANGED <<page, stored, nRefresh, nClear, nClicks, nSubmit>>

(* settlements of the command handlers *)
CmdSettles ==
    \/ \E c \in cmds, o \in {"response", "neterr"} : CmdFetchSettles(c, o)
    \/ \E c \in cmds : CmdJsonRejects(c)
    \/ \E c \in cmds, y \in Replies : CmdJsonResolves(c, y)

(* the table view: refresh, clear dataset and their settlements *)
NextTable ==
    \/ Refresh
    \/ \E r \in reqs, o \in {"response", "neterr"} : FetchSettles(r, o)
    \/ \E r \in reqs : JsonRejects(r)
    \/ \E r \in reqs, b \in Bodies(page) : JsonResolves(r, b)
    \/ \E a \in BOOLEAN : ClearClick(a)
    \/ CmdSettles

(* commands that only report through the status banner, and the clock *)
NextBanner ==
    \/ \E path \in {"", "C:\\cases"} : ParseFolderClick(path)
    \/ ExportCsvClick
    \/ CmdSettles
    \/ TimerFires
    \/ Tick

(* the synchronous callers of showStatus and the clock, which runs until   *)
(* every pending auto-hide has fired                                       *)
NextShow ==
    \/ ParseFolderClick("")
    \/ ExportCsvClick
    \/ TimerFires
    \/ Tick
    \/ TimerWait

(* the export modal; successful responses carry no Content-Disposition *)
NextExport ==
    \/ OpenModal
    \/ DismissModal
    \/ \E v \in FormValues : EditForm(v)
    \/ Submit
    \/ \E s \in subs, o \in {"ok", "notok", "neterr"} : ExportFetchSettles(s, o)
    \/ \E s \in subs, o \in {"blob", "reject"} : ExportBlobSettles(s, o, NoHeader)
    \/ \E s \in subs, o \in {"message", "null", "reject"} : ExportErrorSettles(s, o)

(* the download path of the export: every submission is answered with a    *)
(* PDF payload under some Content-Disposition value                        *)
NextDownload ==
    \/ OpenModal
    \/ Submit
    \/ \E s \in subs : ExportFetchSettles(s, "ok")
    \/ \E s \in subs, d \in Dispositions : ExportBlobSettles(s, "blob", d)

(* the commands that post to the backend, while no timer comes due *)
NextCommands ==
    \/ \E a \in BOOLEAN : ClearClick(a)
    \/ \E path \in {"", "C:\\cases"} : ParseFolderClick(path)
    \/ ParseShellbagsClick
    \/ CmdSettles

(* page load, theme toggle and reload *)
NextTheme ==
    \/ LoadFetch
    \/ LoadWire
    \/ LoadTheme
    \/ ToggleChange
    \/ Reload

Next ==
    \/ NextTable \/ NextBanner \/ NextShow \/ NextExport \/ NextDownload
    \/ NextCommands \/ NextTheme

Spec == Init /\ [][Next]_vars

(* the table view while no auto-hide timer comes due *)
SpecTable == Init /\ [][NextTable]_vars

(* the status banner under the clock *)
SpecBanner == Init /\ [][NextBanner]_vars

(* showStatus calls in an event loop that lets time pass and runs every    *)
(* timer callback that is due                                              *)
SpecShow ==
    /\ Init /\ [][NextShow]_vars
    /\ WF_vars(TimerFires) /\ WF_vars(Tick) /\ WF_vars(TimerWait)

(* the export modal while no auto-hide timer comes due *)
SpecExport == Init /\ [][NextExport]_vars

(* clear dataset, parse folder and parse ShellBags *)
SpecCommands == Init /\ [][NextCommands]_vars

(* the theme preference from the opening of the page on *)
SpecTheme == InitLoad /\ [][NextTheme]_vars

(* successful exports under every sample Content-Disposition value *)
SpecDownload == Init /\ [][NextDownload]_vars

----------------------------------------------------------------------------
(* Properties of the table view *)

(* the rows a record list is rendered as: one per record, in order *)
RowsOf(p, items) ==
    IF Len(items) = 0 THEN <<NoDataRow(p)>>
    ELSE [i \in 1..Len(items) |-> RowOf(p, items[i])]

(* a field counts as absent when the record lacks the key or holds null *)
Absent(rec, f) == f \notin DOMAIN rec \/ Get(rec, f) = JNull

(* the text of a field as the data model states it *)
FieldText(rec, f) == IF Absent(rec, f) THEN "" ELSE ToStr(rec[f])

FetchFailed(e) == e \in {"fetchCaught", "fetchUncaught"}

NonErrorRows(tbl) == SelectSeq(tbl, LAMBDA row : row # ErrorRow)

Range(f) == {f[i] : i \in DOMAIN f}

(* C1: in every reachable state the rendered rows are exactly the record   *)
(* list of the most recent successfully completed fetch, in server order.  *)
C1_TableIsLastFetched ==
    hist.lastOk # NoBody => table = RowsOf(page, hist.lastOk.items)

(* C2: a second refresh() issued before the first resolves: once both have *)
(* settled (successfully), the table shows the response of the request     *)
(* issued last, whatever the arrival order.                                *)
C2_LatestIssuedWins ==
    (reqs = {} /\ hist.overlap /\ ~hist.anyFail) => hist.latestShown

(* C4: a failed refresh() of the Artifacts table (network error, body not  *)
(* JSON, JSON that is no array of records) shows an error-severity status  *)
(* message and leaves the rendered rows unchanged.                         *)
C4_ArtifactsFailureKeepsRows ==
    [][(page = "artifacts" /\ FetchFailed(hist'.ev))
         => /\ table' = table
            /\ banner'.display = "block"
            /\ banner'.html.type = "error"]_vars

C6_CellsAreFieldValues ==
    (hist.ev = "fetchOk" /\ Len(hist.lastOk.items) > 0)
      => /\ Len(table) = Len(hist.lastOk.items)
         /\ \A i \in 1..Len(table) :
              /\ table[i].kind = "data"
              /\ Len(table[i].cells) = Len(Fields(page))
              /\ \A k \in 1..Len(Fields(page)) :
                   table[i].cells[k] = FieldText(hist.lastOk.items[i], Fields(page)[k])

(* C7: after refresh() receives an empty collection the table holds        *)
(* exactly one row, the 'no data' placeholder spanning all columns (8 for  *)
(* Artifacts, 4 for Correlations), and no row of an earlier render.        *)
C7_EmptyGivesPlaceholder ==
    (hist.ev = "fetchOk" /\ hist.lastOk = JArr(<<>>))
      => /\ Len(table) = 1
         /\ table[1].kind = "msg"
         /\ table[1].colspan = Len(Fields(page))
         /\ table[1].colspan = (IF page = "artifacts" THEN 8 ELSE 4)
         /\ table[1].text = (IF page = "artifacts" THEN "No artifacts found."
                             ELSE "No correlations found.")

C7_Witness ==
    /\ hist.ev = "fetchOk"
    /\ hist.lastOk = JArr(<<>>)
    /\ hist.hadRows
    /\ Len(table) = 1

(* C9: a declined clear-dataset prompt issues no backend call and leaves   *)
(* table and banner unchanged; a confirmed clear answered with status      *)
(* 'success' is followed by exactly one refresh() of the Artifacts table;  *)
(* a clear that fails is followed by none.                                 *)
C9_ClearRefreshesOnce ==
    [][LET issued == {r \in reqs' : r.id \notin {q.id : q \in reqs}} IN
       /\ hist'.ev = "clearDeclined" => UNCHANGED <<table, banner, reqs, cmds>>
       /\ hist'.ev = "clearConfirmed" =>
            /\ Cardinality(cmds') = Cardinality(cmds) + 1
            /\ UNCHANGED <<table, reqs>>
       /\ hist'.ev = "clearOk" =>
            /\ Cardinality(issued) = 1
            /\ \A r \in issued : r.pc = "fetch" /\ r.src = "clear"
       /\ hist'.ev = "clearFail" => issued = {}
       /\ (\E r \in issued : r.src = "clear") => hist'.ev = "clearOk"]_vars

C9_Witness ==
    /\ hist.ev = "clearOk"
    /\ \E r \in reqs : r.src = "clear" /\ r.pc = "fetch"

----------------------------------------------------------------------------
(* Properties of the status banner *)

(* the first two showStatus calls of the run were (msg, 'error') at t0 and *)
(* (msg2, 'info') at t1 with t0 < t1 < t0 + 5 s, and none has followed     *)
ErrorThenInfo ==
    /\ hist.nShows = 2
    /\ hist.firstTwo[1].type = "error"
    /\ hist.firstTwo[2].type = "info"
    /\ hist.firstTwo[1].at < hist.firstTwo[2].at
    /\ hist.firstTwo[2].at < hist.firstTwo[1].at + HideDelay

(* C8: after show(msg, 'error') at t0 and show(msg2, 'info') at t1 with    *)
(* t0 < t1 < t0 + 5 s the banner holds msg2; it stays visible until        *)
(* t0 + 5 s and is hidden then by the first call's timer, while the second *)
(* call's timer, due at t1 + 5 s, is still pending: no timer is cancelled. *)
C8_FirstTimerHidesSecondMessage ==
    ErrorThenInfo =>
      LET t0 == hist.firstTwo[1].at
          t1 == hist.firstTwo[2].at
      IN /\ banner.html = [type |-> "info", message |-> hist.firstTwo[2].message]
         /\ now < t0 + HideDelay =>
              Visible /\ banner.timers = <<t0 + HideDelay, t1 + HideDelay>>
         /\ now = t0 + HideDelay =>
              \/ Visible /\ banner.timers = <<t0 + HideDelay, t1 + HideDelay>>
              \/ ~Visible /\ banner.timers = <<t1 + HideDelay>>
         /\ (now > t0 + HideDelay /\ now < t1 + HideDelay) =>
              ~Visible /\ banner.timers = <<t1 + HideDelay>>
         /\ now >= t1 + HideDelay => ~Visible

C8_Witness ==
    /\ ErrorThenInfo
    /\ now >= hist.firstTwo[1].at + HideDelay
    /\ now < hist.firstTwo[2].at + HideDelay
    /\ ~Visible
    /\ banner.timers = <<hist.firstTwo[2].at + HideDelay>>
    /\ banner.html.type = "info"

----------------------------------------------------------------------------
(* Properties of the export modal *)

ExportEnd(e) == e \in {"exportOk", "exportErrBody", "exportCaught"}

(* C3: whenever the backend call of a submission settles (a PDF payload,   *)
(* an error body, or a transport failure), in either view, the modal is    *)
(* hidden and the form reset to empty.                                     *)
C3_SettledSubmissionCloses ==
    [][ExportEnd(hist'.ev) => modal' = "none" /\ form' = [title |-> ""]]_vars

C3_Witness ==
    /\ page = "artifacts"
    /\ hist.ev = "exportCaught"
    /\ hist.before.modal = "block"
    /\ hist.before.form # EmptyForm
    /\ modal = "none"
    /\ form = EmptyForm

Ops(u, op) == {i \in DOMAIN urlLog : urlLog[i] = [op |-> op, url |-> u]}

(* C10: every object URL created for a download is revoked, and revoked    *)
(* only after the download click was dispatched; no handler ends with a    *)
(* created handle still live.                                              *)
C10_ObjectUrlsRevokedAfterClick ==
    \A i \in DOMAIN urlLog :
        LET u == urlLog[i].url IN
        /\ urlLog[i].op = "create" =>
             \E j, k \in DOMAIN urlLog :
                /\ i < j /\ j < k
                /\ urlLog[j] = [op |-> "click", url |-> u]
                /\ urlLog[k] = [op |-> "revoke", url |-> u]
        /\ urlLog[i].op = "revoke" => \E j \in Ops(u, "click") : j < i
        /\ Cardinality(Ops(u, "create")) = 1

C10_Witness ==
    /\ page = "correlations"
    /\ hist.ev = "exportOk"
    /\ Len(urlLog) = 3
    /\ subs = {}

----------------------------------------------------------------------------
(* Properties of the download filename *)

(* the filename parameter of a header, read by the pattern                 *)
(* filename=<quoted-or-bare-token>: the word filename, an equals sign, and *)
(* then a token in double quotes or a bare token that ends at a semicolon, *)
(* a blank or the end of the header; quotes removed; <<>> when the header  *)
(* holds no such parameter                                                 *)
FilenameParameter(h) ==
    LET starts == {i \in 1..Len(h) : HasAt(h, i, FilenameWord \o <<"=">>)} IN
    IF starts = {} THEN <<>>
    ELSE LET g == (CHOOSE i \in starts : \A j \in starts : i <= j) + Len(FilenameWord) + 1
             closing == IF g <= Len(h) /\ h[g] = "\""
                        THEN {k \in (g + 1)..Len(h) : h[k] = "\""} ELSE {}
         IN IF closing # {}
            THEN SubSeq(h, g + 1, (CHOOSE k \in closing : \A j \in closing : k <= j) - 1)
            ELSE IF g <= Len(h) /\ h[g] = "\"" THEN <<>>
            ELSE SubSeq(h, g, RunEnd(h, g, {";", " "}) - 1)

Parsable(d) == d.present /\ FilenameParameter(d.chars) # <<>>

(* C11: on a successful export the download filename is the filename       *)
(* parameter of the Content-Disposition header whenever the header holds   *)
(* one matching filename=<quoted-or-bare-token>, quotes removed, and the   *)
(* route default exactly when the header is absent or unparsable.          *)
C11_FilenameFromHeader ==
    hist.ev = "exportOk" =>
        /\ Parsable(hist.disp) => download = FilenameParameter(hist.disp.chars)
        /\ ~Parsable(hist.disp) <=> download = DefaultFilename(page)

----------------------------------------------------------------------------
(* Properties of the error handling *)

ErrorShown(b) == b.display = "block" /\ b.html.type = "error"

(* C12: every failure of a backend call (transport failure, application    *)
(* failure, malformed body) of refresh, parse folder, parse ShellBags,     *)
(* clear dataset and export PDF ends, in the step that ends its handler,   *)
(* in a user-visible message: an error-severity banner, the alert of the   *)
(* correlation export, or the in-table error row.                          *)
C12_FailuresEndInMessage ==
    [][/\ FetchFailed(hist'.ev) =>
            IF page = "artifacts"
            THEN ErrorShown(banner') /\ Len(banner'.timers) = Len(banner.timers) + 1
            ELSE ErrorRow \in Range(table')
       /\ hist'.ev \in {"clearFail", "parseFail"} =>
            ErrorShown(banner') /\ Len(banner'.timers) = Len(banner.timers) + 1
       /\ hist'.ev \in {"exportErrBody", "exportCaught"} =>
            IF page = "artifacts"
            THEN ErrorShown(banner') /\ Len(banner'.timers) = Len(banner.timers) + 1
            ELSE alertMsg' \in {"Error generating PDF: errorData.message",
                                "Error exporting correlation PDF: "}]_vars

----------------------------------------------------------------------------
(* Properties of the command handlers *)

CmdOk(e) == e \in {"clearOk", "parseOk"}
CmdFail(e) == e \in {"clearFail", "parseFail"}

(* the message of a body as text: the string itself *)
MessageOf(data) == IF "message" \in DOMAIN data THEN data.message.s ELSE ""

(* C13 as stated: parse folder, parse ShellBags and clear dataset take the *)
(* success path if and only if the body's status equals "success"; every   *)
(* other status, a missing one included, takes the failure path, which     *)
(* shows an error-severity banner whose text is the body's message         *)
(* verbatim.                                                               *)
C13_FailureShowsMessageVerbatim ==
    [][hist'.reply \notin {NoBody, JNull} =>
         /\ CmdOk(hist'.ev) <=> Get(hist'.reply, "status") = JStr("success")
         /\ CmdFail(hist'.ev) <=> Get(hist'.reply, "status") # JStr("success")
         /\ CmdFail(hist'.ev) =>
              /\ ErrorShown(banner')
              /\ banner'.html.message = MessageOf(hist'.reply)]_vars

(* C13 amended: the handlers take the success path if and only if the      *)
(* status of the (non-null) body equals "success" and show the body's      *)
(* message with info severity; every other status, a missing one included, *)
(* takes the failure path, which shows an error-severity banner whose text *)
(* is "Error: " followed by the body's message verbatim ("undefined" when  *)
(* the body has no message).                                               *)
C13_FailureShowsPrefixedMessage ==
    [][hist'.reply \notin {NoBody, JNull} =>
         LET status == Get(hist'.reply, "status")
             text == IF "message" \in DOMAIN hist'.reply THEN hist'.reply.message.s
                     ELSE "undefined"
         IN /\ CmdOk(hist'.ev) <=> status = JStr("success")
            /\ CmdFail(hist'.ev) <=> status # JStr("success")
            /\ banner'.display = "block"
            /\ CmdOk(hist'.ev) => banner'.html = [type |-> "info", message |-> text]
            /\ CmdFail(hist'.ev) =>
                 banner'.html = [type |-> "error", message |-> "Error: " \o text]]_vars

C13_Witness ==
    /\ hist.ev = "parseFail"
    /\ hist.reply = [status |-> JStr("Success"), message |-> JStr("Done.")]
    /\ banner.html = [type |-> "error", message |-> "Error: Done."]

----------------------------------------------------------------------------
(* Properties of the theme preference *)

(* C14: once the page is initialized, and after every toggle change and    *)
(* setTheme call, the body attribute, the stored item and the toggle       *)
(* agree: attribute = stored value = the value set last, and the toggle is *)
(* checked if and only if that value is dark.                              *)
C14_ThemeStateAgrees ==
    Ready =>
        /\ attr = stored
        /\ stored = hist.lastSet
        /\ toggle <=> hist.lastSet = JStr("dark")

C14_Witness ==
    /\ Ready
    /\ nReload = 1
    /\ hist.ev = "toggle"
    /\ hist.lastSet = JStr("dark")
    /\ toggle
    /\ attr = JStr("dark")
    /\ stored = JStr("dark")

(* C15: with dark stored, a reload applies dark, and applies it before any *)
(* other initialization step: before the initial data fetch is issued and  *)
(* before the handlers are registered.                                     *)
C15_ThemeAppliedFirst ==
    (nReload > 0 /\ stored = JStr("dark") /\ initPc # "start") => attr = JStr("dark")

(* C17: the applied theme is always light or dark: the load applies the    *)
(* stored value when the key holds one and light when the key is absent,   *)
(* and for every content of the key the attribute and the re-persisted     *)
(* item are in {light, dark} after the load.                               *)
C17_ThemeIsLightOrDark ==
    /\ [](Ready => attr \in {JStr("light"), JStr("dark")})
    /\ [][hist'.ev = "loadTheme" =>
            /\ stored \in {JStr("light"), JStr("dark")} => attr' = stored
            /\ stored = JNull => attr' = JStr("light")
            /\ attr' \in {JStr("light"), JStr("dark")}
            /\ stored' \in {JStr("light"), JStr("dark")}]_vars

----------------------------------------------------------------------------
(* Properties of the modal's transitions *)

(* C16 as stated: while the modal is Open and no submission has been made, *)
(* a dismiss action leaves the modal Open; the modal reaches Closed only   *)
(* from Submitting, by the settlement of a submission.                     *)
C16_DismissLeavesOpen ==
    [][/\ (hist'.ev = "dismiss" /\ nSubmit = 0) => modal' = "block"
       /\ (modal = "block" /\ modal' # "block") => ExportEnd(hist'.ev)]_vars

(* C16 amended: a dismiss action (close control, or a click on the modal   *)
(* backdrop) hides the modal, Open -> Closed, issues no request and keeps  *)
(* the field values; the modal leaves Open only by a dismiss action or by  *)
(* the settlement of a submission.                                         *)
C16_DismissCloses ==
    [][/\ hist'.ev = "dismiss" => modal' = "none" /\ form' = form /\ subs' = subs
       /\ (modal = "block" /\ modal' # "block") =>
             hist'.ev = "dismiss" \/ ExportEnd(hist'.ev)]_vars

C16_Witness ==
    /\ hist.ev = "dismiss"
    /\ nSubmit = 0
    /\ modal = "none"
    /\ form # EmptyForm

(* C19: the settlement of an in-flight submission hides the modal and      *)
(* resets the form whatever happened since it was submitted: a modal       *)
(* dismissed and reopened, or values typed since, are closed and           *)
(* discarded; a submission made while another is in flight issues its own  *)
(* request, and each settlement ends one request and closes and resets     *)
(* again.                                                                  *)
C19_SettlementClosesReopenedModal ==
    [][/\ hist'.ev = "submit" =>
            /\ subs \subseteq subs'
            /\ Cardinality(subs') = Cardinality(subs) + 1
            /\ \E s \in subs' \ subs : s.pc = "fetch" /\ s.body = form
       /\ ExportEnd(hist'.ev) =>
            /\ subs' \subseteq subs
            /\ Cardinality(subs') = Cardinality(subs) - 1
            /\ \A s \in subs \ subs' : s.body = hist'.endBody
            /\ (hist.reopened \/ form # hist'.endBody \/ subs' # {}) =>
                  modal' = "none" /\ form' = EmptyForm]_vars

C19_Witness ==
    /\ ExportEnd(hist.ev)
    /\ hist.before.reopened
    /\ hist.before.modal = "block"
    /\ hist.before.form # hist.endBody
    /\ hist.before.form # EmptyForm
    /\ subs # {}
    /\ modal = "none"
    /\ form = EmptyForm

----------------------------------------------------------------------------
(* Properties of the parse-folder command *)

(* the folder commands whose handler ends in this step *)
FolderSettled == {c \in cmds : c.kind = "folder" /\ \A d \in cmds' : d.id # c.id}

(* C18: parse folder with an empty path issues no backend call and shows   *)
(* an error-severity message; with a non-empty path it issues exactly one  *)
(* POST carrying that path, and the settlement of that call shows exactly  *)
(* one further message, info on status 'success' and error otherwise, and  *)
(* never refreshes the table.                                              *)
C18_ParseFolderPostsOnce ==
    [][/\ hist'.ev = "parseNoPath" =>
            /\ cmds' = cmds /\ reqs' = reqs /\ table' = table
            /\ ErrorShown(banner')
            /\ Len(banner'.timers) = Len(banner.timers) + 1
       /\ (hist'.ev = "parseStarted" /\ hist'.input # "") =>
            /\ cmds \subseteq cmds'
            /\ Cardinality(cmds' \ cmds) = 1
            /\ \A c \in cmds' \ cmds :
                  c.kind = "folder" /\ c.pc = "fetch"
                  /\ c.body = [folder_path |-> hist'.input]
            /\ reqs' = reqs /\ table' = table
       /\ FolderSettled # {} =>
            /\ Cardinality(FolderSettled) = 1
            /\ Len(banner'.timers) = Len(banner.timers) + 1
            /\ banner'.display = "block"
            /\ banner'.html.type =
                  (IF Get(hist'.reply, "status") = JStr("success") THEN "info" ELSE "error")
            /\ reqs' = reqs /\ nextReq' = nextReq /\ table' = table]_vars

C18_Witness ==
    /\ hist.ev = "parseOk"
    /\ hist.reply = [status |-> JStr("success"), message |-> JStr("Done.")]
    /\ banner.html = [type |-> "info", message |-> "Done."]
    /\ Len(banner.timers) = 2
    /\ nextReq = 2
    /\ cmds = {}

----------------------------------------------------------------------------
(* Properties of the auto-hide timers *)

(* the number of show() calls the step of event e makes on page p *)
ShowCalls(e, p) ==
    CASE e = "csv" -> 2
      [] e \in {"parseNoPath", "parseStarted", "parseOk", "parseFail",
                "clearConfirmed", "clearOk", "clearFail"} -> 1
      [] p = "artifacts" /\ e \in {"fetchCaught", "submit", "exportOk", "exportErrBody",
                                   "exportCaught"} -> 1
      [] OTHER -> 0

(* C20: every show() call makes the banner visible and schedules exactly   *)
(* one auto-hide, due 5 s later, that nothing cancels: a pending timer is  *)
(* removed only by firing, when its 5 s have elapsed, and none outlives    *)
(* them, so the pending timers are those of the show() calls whose 5 s     *)
(* have not elapsed.  Hence a visible banner is eventually hidden, it is   *)
(* hidden once the last timer has fired, and it stays hidden until the     *)
(* next show() call.                                                       *)
C20_EveryShowIsEventuallyHidden ==
    /\ [](/\ \A i \in DOMAIN banner.timers :
               banner.timers[i] >= now /\ banner.timers[i] <= now + HideDelay
          /\ banner.timers = <<>> => ~Visible)
    /\ [][LET k == ShowCalls(hist'.ev, page)
              n == Len(banner.timers)
          IN /\ k > 0 =>
                  /\ Visible'
                  /\ Len(banner'.timers) = n + k
                  /\ SubSeq(banner'.timers, 1, n) = banner.timers
                  /\ \A i \in (n + 1)..(n + k) : banner'.timers[i] = now + HideDelay
             /\ hist'.ev = "timer" =>
                  /\ n > 0
                  /\ banner.timers[1] <= now
                  /\ banner'.timers = SubSeq(banner.timers, 2, n)
                  /\ ~Visible'
             /\ (k = 0 /\ hist'.ev # "timer") =>
                  /\ banner'.timers = banner.timers
                  /\ banner'.display = banner.display]_vars
    /\ (Visible ~> ~Visible)

C20_Witness ==
    /\ hist.ev = "timer"
    /\ hist.nShows >= 3
    /\ banner.timers = <<>>
    /\ ~Visible
    /\ now > MaxTime

====
